---- MODULE Spec2Model ----
(***************************************************************************)
(* Model of libndtypes/parser.c: the scan sessions over a file or a string *)
(* (_ndt_from_fp, _ndt_from_file, _ndt_from_string), the process-wide      *)
(* recovery point ndt_lexerror used to intercept the scanner's fatal       *)
(* error, and ndt_from_metadata_and_dtype, which folds dimension metadata  *)
(* onto a parsed dtype.                                                    *)
(*                                                                         *)
(* Every caller is a thread p of Threads with its own error context.  A    *)
(* call is executed as a sequence of steps, one per statement that calls   *)
(* out of parser.c, so that calls of two threads can interleave when the   *)
(* callers are not serialized.                                             *)
(***************************************************************************)
EXTENDS Integers, Sequences, FiniteSets, TLC

\* ---------------------------------------------------------------- bounds
MaxCalls == 2
MaxDims == 2

\* ------------------------------------------------------ program constants
INT_MAX == 2147483647

Threads == {1, 2}
NULL == 0
STDIN == 1
FILE == 2
Ops == {"ndt_from_file", "ndt_from_file_fill_meta", "ndt_from_string",
        "ndt_from_string_fill_meta", "ndt_from_metadata_and_dtype"}
FileOps == {"ndt_from_file", "ndt_from_file_fill_meta"}
StringOps == Ops \ FileOps
Paths == {"-", "good.ndt", "missing.ndt"}
Sizes == {0, INT_MAX \div 2, INT_MAX \div 2 + 1}
Kinds == {"scanner", "state", "buffer", "stream"}

\* Dimension record k of the caller's metadata: m->noffsets[k], m->offsets[k]
\* (k counts from 0 as in the source).  Distinct records carry distinct
\* offset arrays so that a node can be told by the record it carries.
DimRecord(k) == [noffsets |-> k + 2, offsets |-> k + 10]
Meta(n) == [ndims |-> n, recs |-> [k \in 0..(n - 1) |-> DimRecord(k)]]
Metas == {Meta(n) : n \in 0..MaxDims}

\* Every public operation handing its metadata to the session
PassesMeta_Always(o) == TRUE

\* lines 128, 134, 200, 206 and 215: the operations whose session gets the
\* caller's metadata as m; the others run theirs with m = NULL.
PassesMeta(o) == o \in {"ndt_from_file_fill_meta", "ndt_from_string_fill_meta"}

VARIABLES
    serialized,    \* TRUE iff the callers serialize their calls
    ncalls,        \* number of calls begun so far
    crashed,       \* the process was terminated
    ndt_lexerror,  \* jmp_buf: the call whose setjmp filled it (0: never set)
    stdinClosed,   \* number of fclose(stdin) performed
    fr,            \* per thread: position, arguments and locals of its call
    ctx,           \* per thread: reports made to the caller's error context
    heap           \* per thread: resources and type nodes of its call

vars == <<serialized, ncalls, crashed, ndt_lexerror, stdinClosed, fr, ctx, heap>>

\* Arguments and locals at the start of a call.  scanner, state and ast are
\* initialized to NULL by their declarations; fp, buffer, ret, type, t and i
\* are assigned before they are read.  assigned holds the locals of the
\* session that were assigned since its setjmp returned 0; session_m is TRUE
\* iff the session's parameter m is the caller's metadata and not NULL.
Frame(c, o, n, s, meta) ==
    [pc |-> IF o \in FileOps THEN "fopen" ELSE "strlen",
     cid |-> c, op |-> o, name |-> n, size |-> s, m |-> meta,
     fp |-> NULL, scanner |-> NULL, state |-> NULL, buffer |-> NULL,
     bufsize |-> 0, ast |-> NULL, ret |-> 0,
     type |-> NULL, t |-> NULL, i |-> 0,
     result |-> NULL,
     raisedBy |-> 0, fatal |-> FALSE,
     assigned |-> {},
     session_m |-> PassesMeta(o)]

IdleFrame == [Frame(0, "ndt_from_string", "-", 0, Meta(0)) EXCEPT !.pc = "idle"]

\* Resources of one call: per kind the acquisitions and releases, the
\* scanner's current buffer and input stream, the type nodes created, the
\* number of ndt_var_dim invocations, the content of the input buffer, and of
\* the grammar parse its status and whether it was given the metadata.
EmptyHeap ==
    [acq |-> [k \in Kinds |-> 0], rel |-> [k \in Kinds |-> 0],
     installed |-> FALSE, yyin |-> "none", scanned |-> "none",
     nodes |-> <<>>, var_dim_calls |-> 0,
     mem |-> [size |-> 0, copied |-> 0, tail |-> <<0, 0>>],
     stale |-> FALSE, status |-> 0, parsed_m |-> FALSE]

Quiet(p) == fr[p].pc \in {"idle", "returned"}

\* ndt_err_format(ctx, kind, msg, ...): one report into the context of the
\* frame that executes it.  path and num are the formatted arguments; by is
\* the call whose frame writes, cause the call whose failure is reported.
Report(p, kind, msg, path, num) ==
    [kind |-> kind, msg |-> msg, path |-> path, num |-> num,
     by |-> fr[p].cid,
     cause |-> IF fr[p].raisedBy # 0 THEN fr[p].raisedBy ELSE fr[p].cid]

Acquire(h, k) == [h EXCEPT !.acq[k] = @ + 1]
Release(h, k) == [h EXCEPT !.rel[k] = @ + 1]

Init ==
    /\ serialized = TRUE
    /\ ncalls = 0
    /\ crashed = FALSE
    /\ ndt_lexerror = 0
    /\ stdinClosed = 0
    /\ fr = [p \in Threads |-> IdleFrame]
    /\ ctx = [p \in Threads |-> <<>>]
    /\ heap = [p \in Threads |-> EmptyHeap]

InitOverlap ==
    /\ serialized = FALSE
    /\ ncalls = 0
    /\ crashed = FALSE
    /\ ndt_lexerror = 0
    /\ stdinClosed = 0
    /\ fr = [p \in Threads |-> IdleFrame]
    /\ ctx = [p \in Threads |-> <<>>]
    /\ heap = [p \in Threads |-> EmptyHeap]

\* A caller begins one of the five public operations.  Serialized callers
\* begin a call only when no other call is in progress.  Callers that are not
\* serialized make one call each, which is what it takes for two calls to
\* overlap in every possible way.
Call(p) ==
    /\ ~crashed
    /\ Quiet(p)
    /\ ncalls < MaxCalls
    /\ IF serialized THEN \A q \in Threads : Quiet(q) ELSE fr[p].pc = "idle"
    /\ \E o \in Ops, n \in Paths, s \in Sizes, meta \in Metas :
          /\ o \in FileOps => s = 0 /\ meta = Meta(0)
          /\ o \in StringOps => n = "-"
          /\ o # "ndt_from_metadata_and_dtype" => meta = Meta(0)
          /\ fr' = [fr EXCEPT ![p] = Frame(ncalls + 1, o, n, s, meta)]
    /\ ncalls' = ncalls + 1
    /\ ctx' = [ctx EXCEPT ![p] = <<>>]
    /\ heap' = [heap EXCEPT ![p] = EmptyHeap]
    /\ UNCHANGED <<serialized, crashed, ndt_lexerror, stdinClosed>>


\* ------------------------------------------------------------------------
\* The external collaborators: the generated scanner, the grammar and the
\* type constructors, as operators on the resources of the call.
\* ------------------------------------------------------------------------

\* An operation of the scanner reads the object of kind k it is given; stale
\* records that one was read after its release.
Use(h, k) == [h EXCEPT !.stale = @ \/ h.rel[k] > 0]

\* ndt_yylex_init_extra: a new scanner; its input defaults to standard input.
ndt_yylex_init_extra(h) == [Acquire(h, "scanner") EXCEPT !.yyin = "stdin"]

\* ndt_yyset_in: the scanner reads the given stream.
ndt_yyset_in(h) == [Use(h, "scanner") EXCEPT !.yyin = "file"]

\* ndt_yy_scan_buffer refuses a buffer whose last two bytes are not both
\* zero, and returns NULL for it.
DoubleTerminated(b, size) == size >= 2 /\ b.size = size /\ b.tail = <<0, 0>>

\* ndt_yy_scan_buffer: a new scan-buffer handle over the caller's buffer,
\* installed as the scanner's current buffer.
ndt_yy_scan_buffer(h) ==
    [Acquire(Use(h, "scanner"), "state") EXCEPT !.installed = TRUE, !.yyin = "buffer"]

\* ndt_yy_delete_buffer: releases the handle; the scanner has no current
\* buffer afterwards.
ndt_yy_delete_buffer(h) ==
    [Release(Use(h, "state"), "state") EXCEPT !.installed = FALSE]

\* The scanner's current buffer is a handle that was already released.
Dangling(h) == h.installed /\ h.rel["state"] > 0

\* ndt_yylex_destroy: releases the buffer that is still installed as the
\* scanner's current buffer, then the scanner itself.
ndt_yylex_destroy(h) ==
    Release(Use(IF h.installed THEN ndt_yy_delete_buffer(h) ELSE h, "scanner"),
            "scanner")

\* A type node as the grammar or ndt_var_dim creates it.
Node(isvar, abs, el, flag, rec) ==
    [var |-> isvar, abstract |-> abs, elem |-> el, flag |-> flag,
     noffsets |-> rec.noffsets, offsets |-> rec.offsets, rel |-> 0]

\* ndt_del releases the offset array of a node together with the node unless
\* the node was built over externally supplied offsets.
OffsetsFreed(nd) == nd.rel > 0 /\ nd.flag = "InternalOffsets"

NoRecord == [noffsets |-> 0, offsets |-> 0]

\* ndt_yyparse: status 0 with a tree, or a nonzero status without one.  The
\* grammar reports its own failures to the context it was bound to.
ParseStatus == {0, 1, 2}

\* ndt_del: releases a node and the element types it owns.
RECURSIVE ndt_del(_, _)
ndt_del(ns, k) ==
    IF k = NULL THEN ns
    ELSE ndt_del([ns EXCEPT ![k].rel = @ + 1], ns[k].elem)

\* ndt_is_abstract
ndt_is_abstract(ns, k) == ns[k].abstract

\* ------------------------------------------------------------------------
\* Returning from the public operation
\* ------------------------------------------------------------------------
\* The locals of a frame that has returned are gone.
Pop(f) ==
    [f EXCEPT !.fp = NULL, !.scanner = NULL, !.state = NULL, !.buffer = NULL,
              !.bufsize = 0, !.ast = NULL, !.ret = 0, !.assigned = {}]

Return(f, v) ==
    [Pop(f) EXCEPT !.pc = "returned", !.result = v,
                   !.type = NULL, !.t = NULL, !.i = 0]

\* _ndt_from_string returns v to its caller: to the public operation, or to
\* ndt_from_metadata_and_dtype (line 215).
StrReturn(f, v) ==
    IF f.op = "ndt_from_metadata_and_dtype"
    THEN [Pop(f) EXCEPT !.pc = "meta_check", !.type = v]
    ELSE Return(f, v)

\* _ndt_from_fp returns v to _ndt_from_file (line 119).
FpReturn(f, v) ==
    [f EXCEPT !.pc = "fclose", !.t = v, !.scanner = NULL, !.ast = NULL, !.ret = 0,
              !.assigned = {}]

globals == <<serialized, ncalls, crashed, ndt_lexerror, stdinClosed>>

\* ------------------------------------------------------------------------
\* _ndt_from_file and _ndt_from_fp
\* ------------------------------------------------------------------------

\* The open failure not returning: the session runs on the null stream
OpenFailure_FallThrough(f) == [f EXCEPT !.pc = "setjmp_fp"]

\* lines 113-116: the frame after ndt_fopen returned NULL
OpenFailure(f) == Return(f, NULL)

\* ndt_fopen(name, "rb") of a file that exists
CanOpen(n) == n = "good.ndt"

\* lines 108-117: the "-" sentinel or ndt_fopen(name, "rb")
File_Open(p) ==
    /\ ~crashed /\ fr[p].pc = "fopen"
    /\ IF fr[p].name = "-"
       THEN /\ fr' = [fr EXCEPT ![p].fp = STDIN, ![p].pc = "setjmp_fp"]
            /\ UNCHANGED <<ctx, heap>>
       ELSE IF CanOpen(fr[p].name)
       THEN /\ fr' = [fr EXCEPT ![p].fp = FILE, ![p].pc = "setjmp_fp"]
            /\ heap' = [heap EXCEPT ![p] = Acquire(@, "stream")]
            /\ UNCHANGED ctx
       ELSE /\ ctx' = [ctx EXCEPT ![p] =
                  Append(@, Report(p, "OSError", "could not open %s", fr[p].name, 0))]
            /\ fr' = [fr EXCEPT ![p] = OpenFailure(@)]
            /\ UNCHANGED heap
    /\ UNCHANGED globals

\* A recovery point that is set once and kept by later calls
setjmp_Once(f) == IF ndt_lexerror # 0 THEN ndt_lexerror ELSE f.cid

\* setjmp(ndt_lexerror) called directly: the process-wide jmp_buf now holds
\* the recovery point of the calling frame, whatever it held before.
setjmp(f) == f.cid

\* line 73: setjmp(ndt_lexerror) returning 0
Fp_SetJmp(p) ==
    /\ ~crashed /\ fr[p].pc = "setjmp_fp"
    /\ ndt_lexerror' = setjmp(fr[p])
    /\ fr' = [fr EXCEPT ![p].pc = "lex_init_fp"]
    /\ UNCHANGED <<serialized, ncalls, crashed, stdinClosed, ctx, heap>>

\* lines 74-77
Fp_LexInit(p) ==
    /\ ~crashed /\ fr[p].pc = "lex_init_fp"
    /\ \E ok \in BOOLEAN :
          IF ok
          THEN /\ heap' = [heap EXCEPT ![p] = ndt_yylex_init_extra(@)]
               /\ fr' = [fr EXCEPT ![p].scanner = 1, ![p].pc = "set_in",
                                   ![p].assigned = @ \cup {"scanner"}]
               /\ UNCHANGED ctx
          ELSE /\ ctx' = [ctx EXCEPT ![p] =
                     Append(@, Report(p, "LexError", "lexer initialization failed", "", 0))]
               /\ fr' = [fr EXCEPT ![p] = FpReturn(@, NULL)]
               /\ UNCHANGED heap
    /\ UNCHANGED globals

\* lines 79-81
Fp_SetIn(p) ==
    /\ ~crashed /\ fr[p].pc = "set_in"
    /\ heap' = [heap EXCEPT ![p] = IF fr[p].fp # STDIN THEN ndt_yyset_in(@) ELSE @]
    /\ fr' = [fr EXCEPT ![p].pc = "yyparse_fp"]
    /\ UNCHANGED <<globals, ctx>>

\* The effect of ndt_yyparse returning normally with the given status on the
\* frame, the context and the resources of thread p.
ParseFrame(f, next, status) ==
    [f EXCEPT !.ret = status, !.ast = IF status = 0 THEN 1 ELSE NULL, !.pc = next,
              !.assigned = @ \cup {"ret", "ast"}]
ParseCtx(p, status) ==
    IF status = 0 THEN ctx[p]
    ELSE Append(ctx[p], Report(p, "ParseError", "grammar", "", status))
ParseHeap(h, status, abs) ==
    [Use(h, "scanner") EXCEPT
              !.scanned = h.yyin, !.status = status,
              !.nodes = IF status = 0
                        THEN <<Node(FALSE, abs, NULL, "none", NoRecord)>> ELSE <<>>]

\* The grammar given a metadata record may fill in a dimension record.
Filled(m) == Meta(m.ndims + 1)

\* line 83 and line 173: ndt_yyparse(scanner, &ast, m, ctx) with the session's m
ParseMeta(f, fill) == IF f.session_m /\ fill THEN [f EXCEPT !.m = Filled(f.m)] ELSE f

\* line 83
Fp_Parse(p) ==
    /\ ~crashed /\ fr[p].pc = "yyparse_fp"
    /\ \E status \in ParseStatus, abs \in BOOLEAN, fill \in BOOLEAN :
          /\ status # 0 => ~abs
          /\ fill => fr[p].session_m /\ status = 0
          /\ fr' = [fr EXCEPT ![p] = ParseMeta(ParseFrame(@, "lex_destroy_fp", status), fill)]
          /\ ctx' = [ctx EXCEPT ![p] = ParseCtx(p, status)]
          /\ heap' = [heap EXCEPT ![p] =
                [ParseHeap(@, status, abs) EXCEPT !.parsed_m = fr[p].session_m]]
    /\ UNCHANGED globals

\* The session reporting on every nonzero status
StatusReports_AnyFailure(p, status) ==
    IF status # 0
    THEN <<Report(p, "MemoryError", "out of memory", "", 0)>>
    ELSE <<>>

\* The session reporting on status 1 instead of status 2
StatusReports_WrongCode(p, status) ==
    IF status = 1
    THEN <<Report(p, "MemoryError", "out of memory", "", 0)>>
    ELSE <<>>

\* lines 86-88 and 178-180: the session's own report after the parse
StatusReports(p, status) ==
    IF status = 2
    THEN <<Report(p, "MemoryError", "out of memory", "", 0)>>
    ELSE <<>>

\* line 84
Fp_Destroy(p) ==
    /\ ~crashed /\ fr[p].pc = "lex_destroy_fp"
    /\ heap' = [heap EXCEPT ![p] = ndt_yylex_destroy(@)]
    /\ fr' = [fr EXCEPT ![p].pc = "ret_fp"]
    /\ UNCHANGED <<globals, ctx>>

\* lines 86-90
Fp_Return(p) ==
    /\ ~crashed /\ fr[p].pc = "ret_fp"
    /\ ctx' = [ctx EXCEPT ![p] = @ \o StatusReports(p, fr[p].ret)]
    /\ fr' = [fr EXCEPT ![p] = FpReturn(@, fr[p].ast)]
    /\ UNCHANGED <<globals, heap>>

\* lines 92-99: the branch taken when setjmp returns nonzero
Fp_Recover(p) ==
    /\ ~crashed /\ fr[p].pc = "recover_fp"
    /\ heap' = [heap EXCEPT ![p] =
          IF fr[p].scanner # NULL THEN ndt_yylex_destroy(@) ELSE @]
    /\ ctx' = [ctx EXCEPT ![p] =
          Append(@, Report(p, "MemoryError",
                 "out of memory (most likely) or internal lexer error", "", 0))]
    /\ fr' = [fr EXCEPT ![p] = FpReturn(@, NULL)]
    /\ UNCHANGED globals

\* lines 120-122: fclose(fp); return t
File_Close(p) ==
    /\ ~crashed /\ fr[p].pc = "fclose"
    /\ IF fr[p].fp = STDIN
       THEN stdinClosed' = stdinClosed + 1 /\ UNCHANGED heap
       ELSE heap' = [heap EXCEPT ![p] = Release(@, "stream")] /\ UNCHANGED stdinClosed
    /\ fr' = [fr EXCEPT ![p] = Return(@, fr[p].t)]
    /\ UNCHANGED <<serialized, ncalls, crashed, ndt_lexerror, ctx>>


\* ------------------------------------------------------------------------
\* _ndt_from_string
\* ------------------------------------------------------------------------

\* The length check with the limit itself rejected
TooLong_OffByOne(s) == s >= INT_MAX \div 2

\* line 148: the length check
TooLong(s) == s > INT_MAX \div 2

\* lines 147-152: size = strlen(input); the length check
Str_Check(p) ==
    /\ ~crashed /\ fr[p].pc = "strlen"
    /\ IF TooLong(fr[p].size)
       THEN /\ ctx' = [ctx EXCEPT ![p] =
                  Append(@, Report(p, "LexError", "maximum input length: %d",
                                   "", INT_MAX \div 2))]
            /\ fr' = [fr EXCEPT ![p] = StrReturn(@, NULL)]
       ELSE /\ fr' = [fr EXCEPT ![p].pc = "alloc"]
            /\ UNCHANGED ctx
    /\ UNCHANGED <<globals, heap>>

\* Memory that was allocated and not written yet holds any bytes; the model
\* keeps the two bytes behind the input and the number of leading bytes that
\* equal the input.
Uninitialized == [1..2 -> {0, 255}]

\* line 154: ndt_alloc_size(size+2)
ndt_alloc_size(n, garbage) == [size |-> n, copied |-> 0, tail |-> garbage]

\* line 158: memcpy(buffer, input, size)
memcpy(b, n) == [b EXCEPT !.copied = n]

\* Only buffer[size] is set to zero
Terminate_One(b) == [b EXCEPT !.tail[1] = 0]

\* lines 159-160: buffer[size] = '\0'; buffer[size+1] = '\0'
Terminate(b) == [b EXCEPT !.tail = <<0, 0>>]

\* lines 154-160: buffer = ndt_alloc_size(size+2), the copy and the terminators
Str_Alloc(p) ==
    /\ ~crashed /\ fr[p].pc = "alloc"
    /\ \E ok \in BOOLEAN, garbage \in Uninitialized :
          IF ok
          THEN /\ heap' = [heap EXCEPT ![p] =
                     [Acquire(@, "buffer") EXCEPT !.mem =
                         Terminate(memcpy(ndt_alloc_size(fr[p].size + 2, garbage),
                                          fr[p].size))]]
               /\ fr' = [fr EXCEPT ![p].buffer = 1, ![p].bufsize = fr[p].size + 2,
                                   ![p].pc = "setjmp_str"]
               /\ UNCHANGED ctx
          ELSE /\ ctx' = [ctx EXCEPT ![p] =
                     Append(@, Report(p, "MemoryError", "out of memory", "", 0))]
               /\ fr' = [fr EXCEPT ![p] = StrReturn(@, NULL)]
               /\ UNCHANGED heap
    /\ UNCHANGED globals

\* line 162: setjmp(ndt_lexerror) returning 0
Str_SetJmp(p) ==
    /\ ~crashed /\ fr[p].pc = "setjmp_str"
    /\ ndt_lexerror' = setjmp(fr[p])
    /\ fr' = [fr EXCEPT ![p].pc = "lex_init_str"]
    /\ UNCHANGED <<serialized, ncalls, crashed, stdinClosed, ctx, heap>>

\* lines 163-167
Str_LexInit(p) ==
    /\ ~crashed /\ fr[p].pc = "lex_init_str"
    /\ \E ok \in BOOLEAN :
          IF ok
          THEN /\ heap' = [heap EXCEPT ![p] = ndt_yylex_init_extra(@)]
               /\ fr' = [fr EXCEPT ![p].scanner = 1, ![p].pc = "scan_buffer",
                                   ![p].assigned = @ \cup {"scanner"}]
               /\ UNCHANGED ctx
          ELSE /\ ctx' = [ctx EXCEPT ![p] =
                     Append(@, Report(p, "LexError", "lexer initialization failed", "", 0))]
               /\ heap' = [heap EXCEPT ![p] = Release(@, "buffer")]
               /\ fr' = [fr EXCEPT ![p] = StrReturn(@, NULL)]
    /\ UNCHANGED globals

\* lines 169-171
Str_ScanBuffer(p) ==
    /\ ~crashed /\ fr[p].pc = "scan_buffer"
    /\ IF DoubleTerminated(heap[p].mem, fr[p].bufsize)
       THEN /\ heap' = [heap EXCEPT ![p] = ndt_yy_scan_buffer(@)]
            /\ fr' = [fr EXCEPT ![p].state = 1, ![p].pc = "yyparse_str",
                                ![p].assigned = @ \cup {"state"}]
            /\ UNCHANGED crashed
       ELSE \* state is NULL and line 170 writes through it
            /\ \E abort \in BOOLEAN : crashed' = abort
            /\ fr' = [fr EXCEPT ![p].state = NULL, ![p].pc = "yyparse_str",
                                ![p].assigned = @ \cup {"state"}]
            /\ UNCHANGED heap
    /\ UNCHANGED <<serialized, ncalls, ndt_lexerror, stdinClosed, ctx>>

\* line 173
Str_Parse(p) ==
    /\ ~crashed /\ fr[p].pc = "yyparse_str"
    /\ \E status \in ParseStatus, abs \in BOOLEAN, fill \in BOOLEAN :
          /\ status # 0 => ~abs
          /\ fill => fr[p].session_m /\ status = 0
          /\ fr' = [fr EXCEPT ![p] = ParseMeta(ParseFrame(@, "delete_buffer", status), fill)]
          /\ ctx' = [ctx EXCEPT ![p] = ParseCtx(p, status)]
          /\ heap' = [heap EXCEPT ![p] =
                [ParseHeap(@, status, abs) EXCEPT !.parsed_m = fr[p].session_m]]
    /\ UNCHANGED globals

\* line 174
Str_DeleteBuffer(p) ==
    /\ ~crashed /\ fr[p].pc = "delete_buffer"
    /\ heap' = [heap EXCEPT ![p] = ndt_yy_delete_buffer(@)]
    /\ fr' = [fr EXCEPT ![p].pc = "lex_destroy_str"]
    /\ UNCHANGED <<globals, ctx>>

\* line 175
Str_Destroy(p) ==
    /\ ~crashed /\ fr[p].pc = "lex_destroy_str"
    /\ heap' = [heap EXCEPT ![p] = ndt_yylex_destroy(@)]
    /\ fr' = [fr EXCEPT ![p].pc = "free_buffer"]
    /\ UNCHANGED <<globals, ctx>>

\* lines 176-182: ndt_free(buffer), the status check and the return
Str_Return(p) ==
    /\ ~crashed /\ fr[p].pc = "free_buffer"
    /\ heap' = [heap EXCEPT ![p] = Release(@, "buffer")]
    /\ ctx' = [ctx EXCEPT ![p] = @ \o StatusReports(p, fr[p].ret)]
    /\ fr' = [fr EXCEPT ![p] = StrReturn(@, fr[p].ast)]
    /\ UNCHANGED globals

\* lines 185-187 of the branch taken when setjmp returns nonzero
Str_RecoverState(p) ==
    /\ ~crashed /\ fr[p].pc = "recover_str"
    /\ heap' = [heap EXCEPT ![p] =
          IF fr[p].state # NULL THEN Release(@, "state") ELSE @]
    /\ fr' = [fr EXCEPT ![p].pc = "recover_scanner"]
    /\ UNCHANGED <<globals, ctx>>

\* lines 188-190.  When the handle released at line 186 is still the
\* scanner's current buffer, ndt_yylex_destroy reads and releases freed
\* memory: the process may be terminated there or go on.
Str_RecoverScanner(p) ==
    /\ ~crashed /\ fr[p].pc = "recover_scanner"
    /\ heap' = [heap EXCEPT ![p] =
          IF fr[p].scanner # NULL THEN ndt_yylex_destroy(@) ELSE @]
    /\ fr' = [fr EXCEPT ![p].pc = "recover_free"]
    /\ \E abort \in BOOLEAN :
          /\ abort => fr[p].scanner # NULL /\ Dangling(heap[p])
          /\ crashed' = abort
    /\ UNCHANGED <<serialized, ncalls, ndt_lexerror, stdinClosed, ctx>>

\* lines 191-193
Str_RecoverReturn(p) ==
    /\ ~crashed /\ fr[p].pc = "recover_free"
    /\ heap' = [heap EXCEPT ![p] = Release(@, "buffer")]
    /\ ctx' = [ctx EXCEPT ![p] =
          Append(@, Report(p, "MemoryError", "flex: internal lexer error", "", 0))]
    /\ fr' = [fr EXCEPT ![p] = StrReturn(@, NULL)]
    /\ UNCHANGED globals

\* ------------------------------------------------------------------------
\* The scanner's fatal condition: yy_fatal_error does longjmp(ndt_lexerror)
\* ------------------------------------------------------------------------
FatalPoints == {"scan_buffer", "yyparse_str", "yyparse_fp"}

\* The frame of the session (_ndt_from_fp or _ndt_from_string) is live.
InSession(f) ==
    f.pc \in {"lex_init_fp", "set_in", "yyparse_fp", "lex_destroy_fp", "ret_fp",
              "recover_fp", "lex_init_str", "scan_buffer", "yyparse_str",
              "delete_buffer", "lex_destroy_str", "free_buffer", "recover_str",
              "recover_scanner", "recover_free"}

RecoveryBranch(f) == IF f.op \in FileOps THEN "recover_fp" ELSE "recover_str"

\* The thread whose session set recovery point c, if its frame is live.
Owner(c) == {q \in Threads : fr[q].cid = c /\ InSession(fr[q])}

\* A recovery point kept per thread
JumpTarget_PerThread(p) == fr[p].cid

\* lines 61-63: the call whose recovery point a longjmp(ndt_lexerror) of
\* thread p reaches: there is one jmp_buf for the whole process.
JumpTarget(p) == ndt_lexerror

\* The session's locals with only scanner declared volatile
Volatile_ScannerOnly(f) == {"scanner"}

\* lines 69 and 140-141: the locals of the session declared volatile
Volatile(f) == IF f.op \in FileOps THEN {"scanner"} ELSE {"scanner", "state"}

\* The locals the recovery branch reads (lines 93-94 and 185-191)
ReadInRecovery(f) ==
    IF f.op \in FileOps THEN {"scanner"} ELSE {"scanner", "state", "buffer"}

\* The frame as the recovery branch finds it after longjmp: a local that is
\* not volatile and was assigned since setjmp is indeterminate, every other
\* local has its last value.
AfterLongjmp(f) ==
    LET lost == f.assigned \ Volatile(f)
    IN  {[f EXCEPT !.scanner = v.scanner, !.state = v.state] :
            v \in {w \in [scanner : {NULL, 1}, state : {NULL, 1}] :
                      /\ "scanner" \notin lost => w.scanner = f.scanner
                      /\ "state" \notin lost => w.state = f.state}}

\* The scanner raises its fatal condition while thread p runs one of its
\* operations (in ndt_yy_scan_buffer: before the handle exists).  The jump
\* goes to the recovery point in ndt_lexerror: to the branch of p's own
\* session when p set it last; otherwise it is a jump into another call's
\* frame, after which the process is terminated or goes on in that frame's
\* branch.
Fatal(p) ==
    /\ ~crashed /\ fr[p].pc \in FatalPoints
    /\ IF JumpTarget(p) = fr[p].cid
       THEN /\ \E g \in AfterLongjmp(fr[p]) :
                  fr' = [fr EXCEPT ![p] = [g EXCEPT !.pc = RecoveryBranch(g),
                                                    !.raisedBy = g.cid,
                                                    !.fatal = TRUE]]
            /\ UNCHANGED crashed
       ELSE \/ /\ crashed' = TRUE
               /\ fr' = [fr EXCEPT ![p].fatal = TRUE]
            \/ \E q \in Owner(JumpTarget(p)) : \E g \in AfterLongjmp(fr[q]) :
                  /\ fr' = [fr EXCEPT ![q] = [g EXCEPT !.pc = RecoveryBranch(g),
                                                       !.raisedBy = fr[p].cid],
                                      ![p].pc = "abandoned", ![p].fatal = TRUE]
                  /\ UNCHANGED crashed
    /\ UNCHANGED <<serialized, ncalls, ndt_lexerror, stdinClosed, ctx, heap>>

\* ------------------------------------------------------------------------
\* ndt_from_metadata_and_dtype
\* ------------------------------------------------------------------------

\* The abstract type not released
ReleaseAbstract_Leak(ns, k) == ns

\* line 223: the abstract type is released
ReleaseAbstract(ns, k) == ndt_del(ns, k)

\* The loop entered without t set to the parsed type
LoopInit_NoT(f) == [f EXCEPT !.i = 0, !.pc = "var_dim"]

\* line 227: i=0, t=type
LoopInit(f) == [f EXCEPT !.i = 0, !.t = f.type, !.pc = "var_dim"]

\* The records taken from the last to the first
LoopRecord_Reversed(f) == f.m.recs[f.m.ndims - 1 - f.i]

\* line 228: the record of pass i, m->noffsets[i] and m->offsets[i]
LoopRecord(f) == f.m.recs[f.i]

\* lines 216-227: the checks on the parsed type and the loop initialisation
Meta_Check(p) ==
    /\ ~crashed /\ fr[p].pc = "meta_check"
    /\ IF fr[p].type = NULL
       THEN /\ fr' = [fr EXCEPT ![p] = Return(@, NULL)]
            /\ UNCHANGED <<ctx, heap>>
       ELSE IF ndt_is_abstract(heap[p].nodes, fr[p].type)
       THEN /\ ctx' = [ctx EXCEPT ![p] =
                  Append(@, Report(p, "InvalidArgumentError",
                                   "cannot create abstract type with offsets", "", 0))]
            /\ heap' = [heap EXCEPT ![p].nodes = ReleaseAbstract(@, fr[p].type)]
            /\ fr' = [fr EXCEPT ![p] = Return(@, NULL)]
       ELSE /\ fr' = [fr EXCEPT ![p] = LoopInit(@)]
            /\ UNCHANGED <<ctx, heap>>
    /\ UNCHANGED globals

\* ndt_var_dim(type, ExternalOffsets, noffsets, offsets, 0, NULL, ctx)
\* succeeding: a new variable-dimension node over the element type.
ndt_var_dim(ns, el, flag, rec) == Append(ns, Node(TRUE, FALSE, el, flag, rec))

\* ndt_var_dim failing: the constructor owns its argument and releases it.
ndt_var_dim_failed(ns, el) == ndt_del(ns, el)

\* The builder releasing the type it passed to the failed constructor
FailedWrap_Release(ns, k) == ndt_del(ns, k)

\* lines 230-232: after a failed wrap the builder returns at once and
\* releases nothing itself.
FailedWrap(ns, k) == ns

\* lines 227-235: one pass of the loop, or the return after it
Meta_Loop(p) ==
    /\ ~crashed /\ fr[p].pc = "var_dim"
    /\ IF fr[p].i < fr[p].m.ndims
       THEN \E ok \in BOOLEAN :
               /\ IF ok
                  THEN /\ heap' = [heap EXCEPT
                             ![p].nodes = ndt_var_dim(@, fr[p].type, "ExternalOffsets",
                                                      LoopRecord(fr[p])),
                             ![p].var_dim_calls = @ + 1]
                       /\ fr' = [fr EXCEPT ![p].t = Len(heap[p].nodes) + 1,
                                           ![p].type = Len(heap[p].nodes) + 1,
                                           ![p].i = @ + 1]
                       /\ UNCHANGED ctx
                  ELSE /\ heap' = [heap EXCEPT
                             ![p].nodes = FailedWrap(ndt_var_dim_failed(@, fr[p].type),
                                                     fr[p].type),
                             ![p].var_dim_calls = @ + 1]
                       /\ ctx' = [ctx EXCEPT ![p] =
                             Append(@, Report(p, "MemoryError", "ndt_var_dim", "", 0))]
                       /\ fr' = [fr EXCEPT ![p] = Return([@ EXCEPT !.t = NULL], NULL)]
       ELSE /\ fr' = [fr EXCEPT ![p] = Return(@, fr[p].t)]
            /\ UNCHANGED <<ctx, heap>>
    /\ UNCHANGED globals

Next ==
    \E p \in Threads :
        \/ Call(p)
        \/ File_Open(p) \/ Fp_SetJmp(p) \/ Fp_LexInit(p) \/ Fp_SetIn(p)
        \/ Fp_Parse(p) \/ Fp_Destroy(p) \/ Fp_Return(p) \/ Fp_Recover(p)
        \/ File_Close(p)
        \/ Str_Check(p) \/ Str_Alloc(p) \/ Str_SetJmp(p) \/ Str_LexInit(p)
        \/ Str_ScanBuffer(p) \/ Str_Parse(p) \/ Str_DeleteBuffer(p)
        \/ Str_Destroy(p) \/ Str_Return(p)
        \/ Str_RecoverState(p) \/ Str_RecoverScanner(p) \/ Str_RecoverReturn(p)
        \/ Fatal(p)
        \/ Meta_Check(p) \/ Meta_Loop(p)

\* Callers that serialize their calls
Spec == Init /\ [][Next]_vars

\* Callers that do not: calls of two threads overlap
SpecOverlap == InitOverlap /\ [][Next]_vars


\* ------------------------------------------------------------------------
\* Properties
\* ------------------------------------------------------------------------
Returned(p) == fr[p].pc = "returned"
Builder(p) == fr[p].op = "ndt_from_metadata_and_dtype"
Last(s) == s[Len(s)]
Limit == INT_MAX \div 2
RecoveryPcs == {"recover_fp", "recover_str", "recover_scanner", "recover_free"}
SessionKinds == {"scanner", "state", "buffer"}

\* Node nd is a variable-dimension node with the offsets and count of record k.
Carries(nd, k) ==
    /\ nd.var
    /\ nd.noffsets = DimRecord(k).noffsets
    /\ nd.offsets = DimRecord(k).offsets

\* ndt_from_metadata_and_dtype returned a tree built over n >= 1 records.
Built(p) ==
    Returned(p) /\ Builder(p) /\ fr[p].result # NULL /\ fr[p].m.ndims >= 1

\* C1 as stated: the tree built over [d0, ..., d(n-1)] has d0 on its outermost
\* node, the element of the node with d_k is the node with d_(k+1), and the
\* node with d_(n-1) wraps the parsed dtype.
C1_OuterFirst ==
    \A p \in Threads : Built(p) =>
        LET ns == heap[p].nodes
            n == fr[p].m.ndims
        IN  /\ Carries(ns[fr[p].result], 0)
            /\ \A k \in 0..(n - 2) : \E j \in 1..Len(ns) :
                  /\ Carries(ns[j], k)
                  /\ ns[j].elem # NULL
                  /\ Carries(ns[ns[j].elem], k + 1)
            /\ \E j \in 1..Len(ns) :
                  Carries(ns[j], n - 1) /\ ns[j].elem = 1 /\ ~ns[1].var

\* C1 amended: the tree built over [d0, ..., d(n-1)] has d(n-1) on its
\* outermost node, the element of the node with d_k (k >= 1) is the node with
\* d_(k-1), and the node with d0 wraps the parsed dtype; there are exactly n
\* variable-dimension nodes.
C1_InnerFirst ==
    \A p \in Threads : Built(p) =>
        LET ns == heap[p].nodes
            n == fr[p].m.ndims
        IN  /\ Len(ns) = n + 1
            /\ Carries(ns[fr[p].result], n - 1)
            /\ \A k \in 1..(n - 1) : \E j \in 1..Len(ns) :
                  /\ Carries(ns[j], k)
                  /\ ns[j].elem # NULL
                  /\ Carries(ns[ns[j].elem], k - 1)
            /\ \E j \in 1..Len(ns) :
                  /\ Carries(ns[j], 0)
                  /\ ns[j].elem = 1
                  /\ ~ns[1].var /\ ~ns[1].abstract

C1_Witness == \E p \in Threads : Built(p) /\ fr[p].m.ndims >= 2

\* C2: when a call has returned, each scanner handle, scan-buffer handle and
\* owned input buffer it acquired has been released exactly once, the release
\* done by the scanner's destruction on its current buffer included.
C2_ReleasedOnce ==
    \A p \in Threads : Returned(p) =>
        \A k \in SessionKinds :
            heap[p].acq[k] <= 1 /\ heap[p].rel[k] = heap[p].acq[k]

\* C3: after the scanner raised its fatal condition in a call of serialized
\* callers the process is not terminated, control is in that call's own
\* recovery branch, and the call returns null with MemoryError and the
\* message of its session.
C3_FatalRecovered ==
    \A p \in Threads : fr[p].fatal =>
        /\ ~crashed
        /\ fr[p].raisedBy = fr[p].cid
        /\ Returned(p) =>
              /\ fr[p].result = NULL
              /\ ctx[p] # <<>>
              /\ Last(ctx[p]).kind = "MemoryError"
              /\ Last(ctx[p]).msg =
                    IF fr[p].op \in FileOps
                    THEN "out of memory (most likely) or internal lexer error"
                    ELSE "flex: internal lexer error"

C5_OwnRecoveryPoint ==
    \A p \in Threads :
        /\ fr[p].pc \in FatalPoints =>
              ndt_lexerror = fr[p].cid /\ Owner(ndt_lexerror) = {p}
        /\ fr[p].pc \in RecoveryPcs => fr[p].raisedBy = fr[p].cid
        /\ \A j \in 1..Len(ctx[p]) :
              ctx[p][j].by = fr[p].cid /\ ctx[p][j].cause = fr[p].cid

C5_Witness ==
    \E p, q \in Threads :
        /\ p # q
        /\ Returned(q) /\ fr[q].fatal
        /\ fr[p].cid > fr[q].cid
        /\ fr[p].pc \in FatalPoints

\* C6: with overlapping calls, a call that establishes the recovery point
\* overwrites whatever ndt_lexerror held, and a fatal condition raised in a
\* call that was not the last to establish it never resumes in that call's
\* own recovery branch: it resumes in the branch of the call that set it
\* last, or the process is terminated.
C6_JumpsToLastSetter ==
    [][\A p \in Threads :
        /\ (fr[p].pc \in {"setjmp_fp", "setjmp_str"} /\ fr'[p].pc # fr[p].pc)
              => ndt_lexerror' = fr[p].cid
        /\ (/\ fr[p].pc \in FatalPoints
            /\ ~fr[p].fatal /\ fr'[p].fatal
            /\ ndt_lexerror # fr[p].cid)
              => /\ fr'[p].pc \notin RecoveryPcs
                 /\ \/ crashed'
                    \/ \E q \in Threads \ {p} :
                          /\ fr[q].cid = ndt_lexerror
                          /\ fr'[q].pc = RecoveryBranch(fr[q])
                          /\ fr'[q].raisedBy = fr[p].cid]_vars

C6_Witness ==
    \E p, q \in Threads :
        /\ p # q
        /\ fr[p].cid < fr[q].cid
        /\ fr[p].pc = "abandoned"
        /\ fr[q].pc \in RecoveryPcs
        /\ fr[q].raisedBy = fr[p].cid

\* The dtype text of the call parsed to an abstract (a concrete) type.
ParsedAbstract(p) == heap[p].nodes # <<>> /\ heap[p].nodes[1].abstract
ParsedConcrete(p) == heap[p].nodes # <<>> /\ ~heap[p].nodes[1].abstract

\* C7: ndt_from_metadata_and_dtype on a dtype that parses to an abstract type
\* never reaches the loop and returns null with InvalidArgumentError, the
\* parsed type released exactly once and ndt_var_dim never invoked, whatever
\* the number of dimension records.
C7_AbstractRejected ==
    \A p \in Threads : (Builder(p) /\ ParsedAbstract(p)) =>
        /\ fr[p].pc # "var_dim"
        /\ heap[p].var_dim_calls = 0
        /\ Returned(p) =>
              /\ fr[p].result = NULL
              /\ Len(ctx[p]) = 1
              /\ ctx[p][1].kind = "InvalidArgumentError"
              /\ ctx[p][1].msg = "cannot create abstract type with offsets"
              /\ Len(heap[p].nodes) = 1
              /\ heap[p].nodes[1].rel = 1

C7_Witness ==
    \E p \in Threads :
        Builder(p) /\ ParsedAbstract(p) /\ Returned(p) /\ fr[p].m.ndims = MaxDims

\* C8: ndt_from_metadata_and_dtype with zero dimension records and a concrete
\* dtype returns the very tree the parse produced, not released, with
\* ndt_var_dim not invoked and no report made.
C8_ZeroRecords ==
    \A p \in Threads :
        (Builder(p) /\ ParsedConcrete(p) /\ Returned(p) /\ fr[p].m.ndims = 0) =>
            /\ fr[p].result = 1
            /\ heap[p].nodes = <<Node(FALSE, FALSE, NULL, "none", NoRecord)>>
            /\ heap[p].var_dim_calls = 0
            /\ ctx[p] = <<>>

C8_Witness ==
    \E p \in Threads :
        Builder(p) /\ ParsedConcrete(p) /\ Returned(p) /\ fr[p].m.ndims = 0

\* C9: a string operation on input longer than INT_MAX/2 returns null with
\* the one report LexError carrying INT_MAX/2, acquires nothing and does not
\* set the recovery point; input of length at most INT_MAX/2 is never
\* reported too long, and its buffer of length+2 bytes fits a signed 32-bit
\* integer.
C9_LengthLimit ==
    \A p \in Threads : (fr[p].op \in StringOps /\ fr[p].pc # "idle") =>
        IF fr[p].size > Limit
        THEN /\ fr[p].pc \in {"strlen", "meta_check", "returned"}
             /\ \A k \in Kinds : heap[p].acq[k] = 0
             /\ fr[p].buffer = NULL /\ fr[p].scanner = NULL
             /\ ndt_lexerror # fr[p].cid
             /\ fr[p].pc # "strlen" =>
                   /\ Len(ctx[p]) = 1
                   /\ ctx[p][1].kind = "LexError"
                   /\ ctx[p][1].msg = "maximum input length: %d"
                   /\ ctx[p][1].num = Limit
             /\ fr[p].pc = "meta_check" => fr[p].type = NULL
             /\ Returned(p) => fr[p].result = NULL
        ELSE /\ \A j \in 1..Len(ctx[p]) : ctx[p][j].msg # "maximum input length: %d"
             /\ fr[p].buffer # NULL =>
                   fr[p].bufsize = fr[p].size + 2 /\ fr[p].bufsize <= INT_MAX

C9_Witness ==
    \E p, q \in Threads :
        /\ fr[p].op \in StringOps /\ fr[p].size > Limit /\ Returned(p)
        /\ fr[q].op \in StringOps /\ fr[q].size = Limit /\ fr[q].buffer # NULL

\* C10: a file operation on a path other than "-" that cannot be opened
\* returns null with the one report OSError naming the path, creates no
\* scanner, does not set the recovery point and closes no stream; with "-"
\* nothing is opened and the scanner reads standard input.
C10_OpenFailure ==
    \A p \in Threads : (fr[p].op \in FileOps /\ fr[p].pc # "idle") =>
        /\ (fr[p].name # "-" /\ ~CanOpen(fr[p].name)) =>
              /\ fr[p].pc \in {"fopen", "returned"}
              /\ \A k \in Kinds : heap[p].acq[k] = 0 /\ heap[p].rel[k] = 0
              /\ ndt_lexerror # fr[p].cid
              /\ Returned(p) =>
                    /\ fr[p].result = NULL
                    /\ Len(ctx[p]) = 1
                    /\ ctx[p][1].kind = "OSError"
                    /\ ctx[p][1].msg = "could not open %s"
                    /\ ctx[p][1].path = fr[p].name
        /\ fr[p].name = "-" =>
              /\ heap[p].acq["stream"] = 0
              /\ \A j \in 1..Len(ctx[p]) : ctx[p][j].kind # "OSError"
              /\ heap[p].yyin \in {"none", "stdin"}
              /\ fr[p].pc \in {"lex_destroy_fp", "ret_fp"} => heap[p].scanned = "stdin"

C10_Witness ==
    \E p, q \in Threads :
        /\ fr[p].op \in FileOps /\ fr[p].name = "missing.ndt" /\ Returned(p)
        /\ fr[q].op \in FileOps /\ fr[q].name = "-" /\ fr[q].pc = "ret_fp"
        /\ heap[q].scanned = "stdin"

\* C11: a file operation closes the stream it opened from a named path
\* exactly once before it returns, and never closes the standard-input
\* stream, which it did not open.
C11_ClosesOwnStreams ==
    /\ stdinClosed = 0
    /\ \A p \in Threads : (Returned(p) /\ fr[p].op \in FileOps) =>
          heap[p].acq["stream"] <= 1 /\ heap[p].rel["stream"] = heap[p].acq["stream"]

LastAssigned(p, k) == IF heap[p].acq[k] > 0 THEN 1 ELSE NULL

\* C13: in the recovery branch of a call that raised the fatal condition
\* itself, every local the branch reads is declared volatile or was not
\* assigned since setjmp, and holds the value last assigned to it.
C13_RecoveryLocals ==
    \A p \in Threads :
        (fr[p].pc \in RecoveryPcs /\ fr[p].raisedBy = fr[p].cid) =>
            /\ (ReadInRecovery(fr[p]) \cap fr[p].assigned) \subseteq Volatile(fr[p])
            /\ fr[p].scanner = LastAssigned(p, "scanner")
            /\ fr[p].op \in StringOps =>
                  /\ fr[p].state = LastAssigned(p, "state")
                  /\ fr[p].buffer = LastAssigned(p, "buffer")
                  /\ fr[p].buffer # NULL

C13_Witness ==
    \E p \in Threads :
        /\ fr[p].pc = "recover_str" /\ fr[p].raisedBy = fr[p].cid
        /\ fr[p].assigned = {"scanner", "state"}
        /\ fr[p].state # NULL /\ fr[p].scanner # NULL

\* C14: from its allocation to its installation the buffer of an accepted
\* input of length n has size n+2, holds the input in its first n bytes and
\* zero at index n and n+1; the scanner accepts it, and the scan-buffer
\* handle is non-null once its line and column counters are set.
C14_DoubleTerminated ==
    \A p \in Threads :
        /\ fr[p].pc \in {"setjmp_str", "lex_init_str", "scan_buffer", "yyparse_str"} =>
              /\ fr[p].size <= Limit
              /\ fr[p].bufsize = fr[p].size + 2
              /\ heap[p].mem.size = fr[p].size + 2
              /\ heap[p].mem.copied = fr[p].size
              /\ heap[p].mem.tail = <<0, 0>>
              /\ DoubleTerminated(heap[p].mem, fr[p].bufsize)
        /\ fr[p].pc = "yyparse_str" =>
              fr[p].state # NULL /\ heap[p].installed /\ heap[p].acq["state"] = 1

C14_Witness ==
    \E p \in Threads :
        /\ fr[p].pc = "yyparse_str" /\ fr[p].size = Limit
        /\ fr[p].state # NULL /\ heap[p].mem.size = Limit + 2

\* C15: in a string-input call the grammar parse runs only with the scanner
\* created and the buffer installed and nothing released; the scan-buffer
\* handle is released before the scanner is destroyed; the input buffer is
\* freed only when handle and scanner are gone; and no operation of the
\* scanner reads a released scanner or handle.
C15_DependencyOrder ==
    \A p \in Threads :
        /\ fr[p].pc = "yyparse_str" =>
              /\ heap[p].acq["scanner"] = 1 /\ heap[p].installed
              /\ \A k \in SessionKinds : heap[p].rel[k] = 0
        /\ heap[p].rel["scanner"] > 0 => heap[p].rel["state"] >= heap[p].acq["state"]
        /\ heap[p].rel["buffer"] > 0 =>
              /\ heap[p].rel["scanner"] >= heap[p].acq["scanner"]
              /\ heap[p].rel["state"] >= heap[p].acq["state"]
        /\ ~heap[p].stale

\* The grammar parse of p's call returned normally (heap[p].status is its
\* status) and the session is about to report, or has returned.
AboutToReport(p) == fr[p].pc \in {"ret_fp", "free_buffer"}
SessionReturned(p) ==
    /\ heap[p].scanned # "none"
    /\ \/ fr[p].pc \in {"fclose", "meta_check"}
       \/ Returned(p) /\ ~Builder(p)

\* What the session returned to its caller
SessionResult(p) ==
    CASE fr[p].pc = "fclose" -> fr[p].t
      [] fr[p].pc = "meta_check" -> fr[p].type
      [] OTHER -> fr[p].result

\* The reports of the session itself, as opposed to the grammar's
SessionReports(p) == SelectSeq(ctx[p], LAMBDA r : r.kind # "ParseError")

\* C16: after the grammar parse returned normally, the scanner is destroyed
\* before the session reports; status 2 makes the session report MemoryError
\* "out of memory" once, status 0 and status 1 make it report nothing; and
\* the session returns the tree pointer the grammar produced.
C16_StatusHandling ==
    \A p \in Threads :
        /\ AboutToReport(p) =>
              /\ heap[p].acq["scanner"] = 1 /\ heap[p].rel["scanner"] = 1
              /\ SessionReports(p) = <<>>
              /\ fr[p].ret = heap[p].status
              /\ fr[p].ast = (IF heap[p].nodes # <<>> THEN 1 ELSE NULL)
        /\ SessionReturned(p) =>
              /\ heap[p].rel["scanner"] = 1
              /\ Len(SessionReports(p)) = (IF heap[p].status = 2 THEN 1 ELSE 0)
              /\ \A j \in 1..Len(SessionReports(p)) :
                    /\ SessionReports(p)[j].kind = "MemoryError"
                    /\ SessionReports(p)[j].msg = "out of memory"
              /\ SessionResult(p) = (IF heap[p].nodes # <<>> THEN 1 ELSE NULL)
              /\ heap[p].status = 0 <=> SessionResult(p) # NULL

C16_Witness ==
    \E p, q \in Threads :
        /\ SessionReturned(p) /\ heap[p].status = 2 /\ fr[p].op \in FileOps
        /\ SessionReturned(q) /\ heap[q].status = 1 /\ fr[q].op \in StringOps

\* C17: ndt_from_metadata_and_dtype leaves the caller's metadata as it was
\* on every path: no step of the call changes the record count, an entry
\* count or an offset array; no offset array is released with a node that
\* carries it; and the dtype is parsed with no metadata given to the grammar.
C17_MetaUnchanged ==
    /\ [](\A p \in Threads : Builder(p) =>
             /\ ~fr[p].session_m /\ ~heap[p].parsed_m
             /\ \A j \in 1..Len(heap[p].nodes) : ~OffsetsFreed(heap[p].nodes[j]))
    /\ [][\A p \in Threads :
             (Builder(p) /\ fr'[p].cid = fr[p].cid) => fr'[p].m = fr[p].m]_vars

C17_Witness ==
    \E p, q \in Threads :
        /\ Builder(p) /\ Returned(p) /\ fr[p].result = NULL
        /\ fr[p].m = Meta(MaxDims)
        /\ \E j \in 1..Len(heap[p].nodes) :
              Carries(heap[p].nodes[j], 0) /\ heap[p].nodes[j].rel = 1
        /\ Returned(q) /\ heap[q].parsed_m /\ fr[q].m # Meta(0)

====
